---- MODULE Spec2Model ----
(***************************************************************************)
(* State-machine model of ScreenRecorder (capture_screen_avi.py): the      *)
(* start/stop session controller, the timer-driven capture loop, the       *)
(* pixel conversion and the cv2.VideoWriter objects it opens, writes to    *)
(* and releases.                                                           *)
(***************************************************************************)
EXTENDS Integers, Sequences, FiniteSets, TLC

\* ---------------------------------------------------------------- bounds
\* Accepted starts (sessions) explored, and tick handlers run per session.
MaxSessions == 2
MaxTicks == 2
\* Widths and heights the conversion is applied to on its own:
\* ProbeMinDim .. ProbeMinDim + ProbeSpan.
ProbeMinDim == 640
ProbeSpan == 11

\* ------------------------------------------------------- program constants
FpsMin == 1
FpsMax == 60
FpsDefault == 20
MsPerSecond == 1000
BgraChannels == 4
BgrChannels == 3
\* self.writer = None; the VideoWriter objects have the ids 1, 2, ...
NoWriter == 0
\* self.target_path = None / self.target_size = None
NoPath == << >>
NoSize == << >>

\* Values the FPS spin box is set to (a subset of its range FpsMin..FpsMax).
FpsChoices == {FpsMin, FpsDefault, FpsMax}
\* Items of scale_box, in the order of addItems.
ScaleItems == <<"orig", "1/2", "1/3", "1/4">>
\* Sizes (width, height) of the pixmap grabWindow returns.
FrameSizes == {<<1920, 1080>>, <<1366, 768>>}
\* File names the save dialog returns, as sequences of characters.
PathMp4 == <<"a", ".", "m", "p", "4">>
PathAvi == <<"a", ".", "A", "V", "I">>
PathBare == <<"a">>
Paths == {PathMp4, PathAvi, PathBare}
\* More file names, for the codec selection applied on its own.
ProbePaths ==
    Paths \cup {<<"a", ".", "M", "P", "4">>, <<"a", ".", "M", "p", "4">>,
                <<"a", ".", "a", "v", "i">>, <<"a", ".", "m", "k", "v">>,
                <<".", "m", "p", "4">>, <<"a", ".">>,
                <<"a", ".", "m", "p", "4", ".", "a", "v", "i">>,
                <<"a", ".", "a", "v", "i", ".", "m", "p", "4">>}
ProbeDims == ProbeMinDim..(ProbeMinDim + ProbeSpan)

VARIABLES
    pc,               \* "loop" | "dialog" | "closing" | "closed" | "aborted"
    screen,           \* self.screen is not None
    recording,        \* self.recording
    timerActive,      \* self.timer.isActive()
    timerInterval,    \* self.timer.interval()
    btn_start,        \* self.btn_start.isEnabled()
    btn_stop,         \* self.btn_stop.isEnabled()
    fps_box,          \* self.fps_box.value()
    scale_box,        \* self.scale_box.currentText()
    writer,           \* self.writer: the id of a VideoWriter, or NoWriter
    target_path,      \* self.target_path
    target_size,      \* self.target_size
    last_frame_time,  \* self.last_frame_time
    preview,          \* the preview label shows a pixmap
    enc,              \* the cv2.VideoWriter object opened last, or NoEnc
    \* history variables (not program state)
    lastOp,           \* the handler (and branch of it) that ran last
    sessions,         \* accepted starts so far
    ticks,            \* tick handlers run in the current (or last) session
    openFailed,       \* an open failed in the current (or last) session
    handles,          \* VideoWriters opened so far (the last id given out)
    opens,            \* VideoWriters opened in the current (or last) session
    writes,           \* frames handed to write() in that session
    resized,          \* a frame of that session had to be resized to the target
    firstConv,        \* converted size of the first frame written in the session
    firstFps,         \* fps_box when that first frame was written
    startFps,         \* fps_box when the session was started
    \* the input and the result of one application of a pure function
    probe

\* The widgets and the screen, which no handler writes.
controls == <<fps_box, scale_box>>
\* The fields of the session (the Session Controller's state).
session == <<writer, target_path, target_size>>
\* What start and stop switch.
switches == <<recording, timerActive, btn_start, btn_stop>>
prog == <<pc, screen, controls, switches, timerInterval, session,
          last_frame_time, preview, enc>>
sessHist == <<sessions, ticks, openFailed, opens, writes, resized, firstConv,
              firstFps, startFps>>
hist == <<lastOp, handles, sessHist>>
vars == <<prog, hist, probe>>

\* ----------------------------------------------------------- pure helpers
Max(a, b) == IF a >= b THEN a ELSE b

\* _scale_factor: the factor as <<numerator, denominator>>.
scale_factor(m) ==
    CASE m = "orig" -> <<1, 1>>
      [] m = "1/2" -> <<1, 2>>
      [] m = "1/3" -> <<1, 3>>
      [] m = "1/4" -> <<1, 4>>

\* The product is rounded to the nearest integer.
ScaleDim_rounds(n, s) == (2 * n * s[1] + s[2]) \div (2 * s[2])

\* int(n * scale): the float product truncated. For the factors above and
\* every n in 0..200000 the float result equals this integer quotient.
ScaleDim(n, s) == (n * s[1]) \div s[2]

\* qimage_to_numpy: an (H, W, 4) array.
qimage_to_numpy(size) == [w |-> size[1], h |-> size[2], ch |-> BgraChannels]

\* cv2.resize(arr, (w, h)): same channels, new size.
cv2_resize(arr, size) == [arr EXCEPT !.w = size[1], !.h = size[2]]

\* cv2.cvtColor(arr, COLOR_BGRA2BGR)
cvtColor(arr) == [arr EXCEPT !.ch = BgrChannels]

\* Lines 191-202 of _on_tick: pixmap -> BGR frame, downscaled per scale_box.
convert_frame(size, m) ==
    LET arr == qimage_to_numpy(size)
        scale == scale_factor(m)
        scaled == IF scale # <<1, 1>>
                  THEN cv2_resize(arr, <<ScaleDim(arr.w, scale), ScaleDim(arr.h, scale)>>)
                  ELSE arr
    IN  cvtColor(scaled)

\* (frame_bgr.shape[1], frame_bgr.shape[0])
ShapeWH(buf) == <<buf.w, buf.h>>

\* Line 209: self.target_size = (w, h) of the frame the writer is opened for.
first_target_size(frame_bgr) == ShapeWH(frame_bgr)

\* The frame is written as converted, whatever the target size.
fit_to_target_never(frame_bgr, target) == frame_bgr

\* Lines 212-213: resize a frame whose size differs from target_size.
fit_to_target(frame_bgr, target) ==
    IF ShapeWH(frame_bgr) # target THEN cv2_resize(frame_bgr, target) ELSE frame_bgr

\* The interval is computed in seconds.
interval_ms_seconds(fps) == 1 \div Max(1, fps)

\* Line 139: int(1000 / max(1, fps))
interval_ms(fps) == MsPerSecond \div Max(1, fps)

\* str.lower on the characters file names are built from.
LowerChar(c) ==
    CASE c = "A" -> "a" [] c = "V" -> "v" [] c = "I" -> "i"
      [] c = "M" -> "m" [] c = "P" -> "p" [] OTHER -> c
Lower(s) == [i \in 1..Len(s) |-> LowerChar(s[i])]

\* str.rfind("."): the last index of a dot, 0 when there is none.
RECURSIVE LastDot(_, _)
LastDot(s, i) == IF i = 0 THEN 0 ELSE IF s[i] = "." THEN i ELSE LastDot(s, i - 1)

\* pathlib's Path.suffix of a one-component path.
Suffix(p) ==
    LET i == LastDot(p, Len(p))
    IN  IF 1 < i /\ i < Len(p) THEN SubSeq(p, i, Len(p)) ELSE << >>

\* The extension is compared as it is spelled.
fourcc_case_sensitive(out_path) ==
    IF Suffix(out_path) = <<".", "m", "p", "4">> THEN "mp4v" ELSE "XVID"

\* Line 125: the FourCC chosen from the extension.
fourcc(out_path) ==
    IF Lower(Suffix(out_path)) = <<".", "m", "p", "4">> THEN "mp4v" ELSE "XVID"

\* Line 126: cv2.VideoWriter(str(out_path), fourcc, fps, (frame_w, frame_h)),
\* the object with identity id. isOpened: whether the encoder could be
\* initialized; frames: the buffers written to it so far; releases, raised:
\* the calls of release() and whether the last one raised.
VideoWriter(id, out_path, fps, frame_w, frame_h, isOpened) ==
    [id |-> id, path |-> out_path, codec |-> fourcc(out_path), fps |-> fps,
     size |-> <<frame_w, frame_h>>, isOpened |-> isOpened, frames |-> << >>,
     releases |-> 0, raised |-> FALSE]

\* _init_writer returns the writer without looking at isOpened().
init_writer_never_raises(vw) == FALSE

\* Lines 127-128: _init_writer raises RuntimeError for a writer not opened.
init_writer_raises(vw) == ~vw.isOpened

\* No VideoWriter object exists (none opened yet, or the last one is garbage).
NoEnc ==
    [id |-> NoWriter, path |-> NoPath, codec |-> "", fps |-> 0, size |-> NoSize,
     isOpened |-> FALSE, frames |-> << >>, releases |-> 0, raised |-> FALSE]

\* The frame is written twice.
WriteFrame_twice(e, w, frame_bgr) ==
    IF e.id = w
    THEN [e EXCEPT !.frames = Append(Append(@, frame_bgr), frame_bgr)]
    ELSE e

\* writer.write(frame_bgr) on the object self.writer refers to.
WriteFrame(e, w, frame_bgr) ==
    IF e.id = w THEN [e EXCEPT !.frames = Append(@, frame_bgr)] ELSE e

\* release() is called but the handle is kept.
release_writer_keeps_handle(w, e, raises) ==
    IF w # NoWriter
    THEN [writer |-> w,
          enc |-> IF e.id = w
                  THEN [e EXCEPT !.releases = @ + 1, !.raised = raises]
                  ELSE e,
          error |-> FALSE]
    ELSE [writer |-> w, enc |-> e, error |-> FALSE]

\* The handle is cleared without release().
release_writer_no_release(w, e, raises) ==
    [writer |-> NoWriter, enc |-> e, error |-> FALSE]

\* The exception of release() is not caught.
release_writer_propagates(w, e, raises) ==
    IF w # NoWriter
    THEN [writer |-> IF raises THEN w ELSE NoWriter,
          enc |-> IF e.id = w
                  THEN [e EXCEPT !.releases = @ + 1, !.raised = raises]
                  ELSE e,
          error |-> raises]
    ELSE [writer |-> w, enc |-> e, error |-> FALSE]

\* writer.release() on the object w refers to; raises: whether it raises.
Release(e, w, raises) ==
    IF e.id = w THEN [e EXCEPT !.releases = @ + 1, !.raised = raises] ELSE e

\* _release_writer: release() once when a writer is present (its exception,
\* if any, is swallowed), then the handle is cleared. error: whether an
\* exception leaves _release_writer.
release_writer(w, e, raises) ==
    IF w # NoWriter
    THEN [writer |-> NoWriter, enc |-> Release(e, w, raises), error |-> FALSE]
    ELSE [writer |-> w, enc |-> e, error |-> FALSE]

\* No pure function is being applied.
NoProbe == [kind |-> "none", arg |-> << >>, done |-> FALSE, out |-> << >>]

\* ------------------------------------------------------------------- Init
\* The state after ScreenRecorder.__init__.
Constructed ==
    /\ pc = "loop"
    /\ screen \in BOOLEAN
    /\ recording = FALSE
    /\ timerActive = FALSE
    /\ timerInterval = 0
    /\ btn_start = TRUE
    /\ btn_stop = FALSE
    /\ fps_box = FpsDefault
    /\ scale_box = ScaleItems[1]
    /\ writer = NoWriter
    /\ target_path = NoPath
    /\ target_size = NoSize
    /\ last_frame_time = 0
    /\ preview = FALSE
    /\ enc = NoEnc
    /\ lastOp = "init"
    /\ sessions = 0
    /\ ticks = 0
    /\ openFailed = FALSE
    /\ handles = 0
    /\ opens = 0
    /\ writes = 0
    /\ resized = FALSE
    /\ firstConv = NoSize
    /\ firstFps = 0
    /\ startFps = 0

Init ==
    /\ Constructed
    /\ probe = NoProbe

\* ---------------------------------------------------------------- start
\* _start_recording opens the dialog whatever the state is.
start_recording_enter_unguarded ==
    /\ pc' = "dialog"
    /\ lastOp' = "start_dialog"
    /\ UNCHANGED <<screen, controls, switches, timerInterval, session,
                   last_frame_time, preview, enc, handles, sessHist>>

\* _start_recording up to the modal save dialog (lines 131-134).
start_recording_enter ==
    /\ pc' = IF recording THEN pc ELSE "dialog"
    /\ lastOp' = IF recording THEN "start_noop" ELSE "start_dialog"
    /\ UNCHANGED <<screen, controls, switches, timerInterval, session,
                   last_frame_time, preview, enc, handles, sessHist>>

\* The start goes on whatever the dialog returned.
path_missing_never(path) == FALSE

\* Line 135: if not self.target_path
path_missing(path) == path = NoPath

\* _start_recording from the dialog's return (lines 134-144); path is what
\* _choose_target returns, NoPath when the dialog was cancelled.
start_recording_resume(path) ==
    LET fps == fps_box IN
    /\ pc' = "loop"
    /\ target_path' = path
    /\ IF path_missing(path)
       THEN /\ lastOp' = "start_cancel"
            /\ UNCHANGED <<switches, timerInterval, last_frame_time, enc, sessHist>>
       ELSE /\ timerInterval' = interval_ms(fps)
            /\ timerActive' = TRUE
            /\ btn_start' = FALSE
            /\ btn_stop' = TRUE
            /\ recording' = TRUE
            /\ last_frame_time' = 0
            /\ lastOp' = "start"
            /\ sessions' = sessions + 1
            /\ ticks' = 0
            /\ openFailed' = FALSE
            /\ opens' = 0
            /\ writes' = 0
            /\ resized' = FALSE
            /\ firstConv' = NoSize
            /\ firstFps' = 0
            /\ startFps' = fps
            \* a VideoWriter nothing refers to any more is forgotten
            /\ enc' = IF writer = NoWriter THEN NoEnc ELSE enc
    /\ UNCHANGED <<screen, controls, writer, target_size, preview, handles>>

\* btn_start.clicked
ClickStart ==
    /\ UNCHANGED probe
    /\ pc = "loop"
    /\ btn_start
    /\ start_recording_enter

\* QFileDialog.getSaveFileName returns.
DialogDone ==
    /\ UNCHANGED probe
    /\ pc = "dialog"
    /\ \E path \in Paths \cup {NoPath} :
          /\ (path # NoPath => sessions < MaxSessions)
          /\ start_recording_resume(path)

\* ----------------------------------------------------------------- stop
\* _stop_recording that leaves the timer running.
stop_recording_timer_runs(raises) ==
    IF ~recording
    THEN UNCHANGED <<switches, session, enc>>
    ELSE LET r == release_writer(writer, enc, raises)
         IN  /\ btn_start' = TRUE
             /\ btn_stop' = FALSE
             /\ recording' = FALSE
             /\ writer' = r.writer
             /\ enc' = r.enc
             /\ target_path' = IF r.error THEN target_path ELSE NoPath
             /\ target_size' = IF r.error THEN target_size ELSE NoSize
             /\ UNCHANGED timerActive

\* _stop_recording (lines 146-155); raises: whether writer.release() raises.
stop_recording(raises) ==
    IF ~recording
    THEN UNCHANGED <<switches, session, enc>>
    ELSE LET r == release_writer(writer, enc, raises)
         IN  /\ timerActive' = FALSE
             /\ btn_start' = TRUE
             /\ btn_stop' = FALSE
             /\ recording' = FALSE
             /\ writer' = r.writer
             /\ enc' = r.enc
             \* lines 154-155 run unless line 153 raised
             /\ target_path' = IF r.error THEN target_path ELSE NoPath
             /\ target_size' = IF r.error THEN target_size ELSE NoSize

\* btn_stop.clicked
ClickStop ==
    /\ UNCHANGED probe
    /\ pc = "loop"
    /\ btn_stop
    /\ \E raises \in BOOLEAN :
          /\ (raises => (recording /\ writer # NoWriter))
          /\ stop_recording(raises)
    /\ lastOp' = IF recording THEN "stop" ELSE "stop_noop"
    /\ UNCHANGED <<pc, screen, controls, timerInterval, last_frame_time, preview,
                   handles, sessHist>>

\* closeEvent passes the event on without stopping.
CloseStop_no_stop ==
    /\ UNCHANGED probe
    /\ pc = "loop"
    /\ pc' = "closing"
    /\ lastOp' = IF recording THEN "close_stop" ELSE "close_noop"
    /\ UNCHANGED <<screen, controls, switches, timerInterval, session,
                   last_frame_time, preview, enc, handles, sessHist>>

\* closeEvent, line 158: self._stop_recording()
CloseStop ==
    /\ UNCHANGED probe
    /\ pc = "loop"
    /\ \E raises \in BOOLEAN :
          /\ (raises => (recording /\ writer # NoWriter))
          /\ stop_recording(raises)
    /\ pc' = "closing"
    /\ lastOp' = IF recording THEN "close_stop" ELSE "close_noop"
    /\ UNCHANGED <<screen, controls, timerInterval, last_frame_time, preview,
                   handles, sessHist>>

\* closeEvent, line 159: super().closeEvent(e); the window closes.
CloseSuper ==
    /\ UNCHANGED probe
    /\ pc = "closing"
    /\ pc' = "closed"
    /\ UNCHANGED <<screen, controls, switches, timerInterval, session,
                   last_frame_time, preview, enc, hist>>

\* ----------------------------------------------------------------- tick
\* The part of _on_tick that records (lines 190-215), reached with a screen
\* and while recording. isOpened: whether VideoWriter.isOpened() holds after
\* construction; fatal: whether the RuntimeError that then leaves the slot
\* ends the process (PyQt calls qFatal) or is only reported.
record_frame(size, isOpened, fatal) ==
    LET frame_bgr == convert_frame(size, scale_box)
        fresh == writer = NoWriter
        vw == VideoWriter(handles + 1, target_path, fps_box, frame_bgr.w,
                          frame_bgr.h, isOpened)
    IN  IF fresh /\ init_writer_raises(vw)
        THEN /\ pc' = IF fatal THEN "aborted" ELSE pc
             /\ lastOp' = "tick_openfail"
             /\ openFailed' = TRUE
             /\ UNCHANGED <<session, enc, handles, opens, writes, resized,
                            firstConv, firstFps>>
        ELSE LET wr == IF fresh THEN handles + 1 ELSE writer
                 e == IF fresh THEN vw ELSE enc
                 tsize == IF fresh THEN first_target_size(frame_bgr) ELSE target_size
                 first == writes = 0
             IN  /\ writer' = wr
                 /\ target_size' = tsize
                 /\ enc' = WriteFrame(e, wr, fit_to_target(frame_bgr, tsize))
                 /\ handles' = IF fresh THEN handles + 1 ELSE handles
                 /\ opens' = IF fresh THEN opens + 1 ELSE opens
                 /\ writes' = writes + 1
                 /\ resized' = (resized \/ ShapeWH(frame_bgr) # tsize)
                 /\ lastOp' = IF fresh THEN "tick_open" ELSE "tick_write"
                 /\ firstConv' = IF first THEN ShapeWH(frame_bgr) ELSE firstConv
                 /\ firstFps' = IF first THEN fps_box ELSE firstFps
                 /\ UNCHANGED <<pc, target_path, openFailed>>

\* _on_tick (lines 169-215); size: the size of the pixmap grabWindow returns.
on_tick(size, isOpened, fatal) ==
    /\ ticks' = IF recording THEN ticks + 1 ELSE ticks
    /\ IF ~screen
       THEN /\ lastOp' = "tick_noscreen"
            /\ UNCHANGED <<pc, session, preview, enc, handles, opens, writes, resized,
                           openFailed, firstConv, firstFps>>
       ELSE /\ preview' = TRUE
            /\ IF ~recording
               THEN /\ lastOp' = "tick_idle"
                    /\ UNCHANGED <<pc, session, enc, handles, opens, writes, resized,
                                   openFailed, firstConv, firstFps>>
               ELSE record_frame(size, isOpened, fatal)
    /\ UNCHANGED <<screen, controls, switches, timerInterval, last_frame_time,
                   sessions, startFps>>

\* timer.timeout: fires only while the timer is active; the event loop that
\* delivers it is the main one or the one nested in the modal dialog.
TimerTimeout ==
    /\ UNCHANGED probe
    /\ pc \in {"loop", "dialog"}
    /\ timerActive
    /\ ticks < MaxTicks
    /\ \E size \in FrameSizes, isOpened \in BOOLEAN, fatal \in BOOLEAN :
          /\ (fatal => ~isOpened)
          /\ on_tick(size, isOpened, fatal)

\* ------------------------------------------------------------- controls
\* The user changes the FPS spin box.
SetFps ==
    /\ UNCHANGED probe
    /\ pc = "loop"
    /\ \E v \in FpsChoices \ {fps_box} : fps_box' = v
    /\ UNCHANGED <<pc, screen, scale_box, switches, timerInterval, session,
                   last_frame_time, preview, enc, hist>>

\* The user picks another item of the scale combo box.
SetScale ==
    /\ UNCHANGED probe
    /\ pc = "loop"
    /\ \E i \in 1..Len(ScaleItems) :
          /\ ScaleItems[i] # scale_box
          /\ scale_box' = ScaleItems[i]
    /\ UNCHANGED <<pc, screen, fps_box, switches, timerInterval, session,
                   last_frame_time, preview, enc, hist>>

Next ==
    \/ ClickStart
    \/ DialogDone
    \/ ClickStop
    \/ CloseStop
    \/ CloseSuper
    \/ TimerTimeout
    \/ SetFps
    \/ SetScale

Spec == Init /\ [][Next]_vars

\* ------------------------------------------- pure functions on their own
\* One input of the conversion (width, height, scale item) or of the codec
\* selection (a file name), not yet applied.
InitPure ==
    /\ Constructed
    /\ \/ \E w \in ProbeDims, h \in ProbeDims, i \in 1..Len(ScaleItems) :
             probe = [kind |-> "convert", arg |-> <<w, h, ScaleItems[i]>>,
                      done |-> FALSE, out |-> << >>]
       \/ \E path \in ProbePaths :
             probe = [kind |-> "codec", arg |-> path, done |-> FALSE, out |-> << >>]

\* Lines 191-202 on a frame of the given size with the given scale item.
ApplyConvert ==
    /\ probe.kind = "convert"
    /\ ~probe.done
    /\ probe' = [probe EXCEPT
                   !.out = convert_frame(<<probe.arg[1], probe.arg[2]>>, probe.arg[3]),
                   !.done = TRUE]
    /\ UNCHANGED <<prog, hist>>

\* Line 125 on the given file name.
ApplyCodec ==
    /\ probe.kind = "codec"
    /\ ~probe.done
    /\ probe' = [probe EXCEPT !.out = fourcc(probe.arg), !.done = TRUE]
    /\ UNCHANGED <<prog, hist>>

NextPure ==
    \/ ApplyConvert
    \/ ApplyCodec

SpecPure == InitPure /\ [][NextPure]_vars

\* ------------------------------------------------- handlers called directly
\* The three slots invoked as methods, whatever the buttons and the timer
\* allow: _start_recording, _stop_recording and _on_tick are plain methods.
CallStart ==
    /\ UNCHANGED probe
    /\ pc = "loop"
    /\ start_recording_enter

CallStop ==
    /\ UNCHANGED probe
    /\ pc = "loop"
    /\ \E raises \in BOOLEAN :
          /\ (raises => (recording /\ writer # NoWriter))
          /\ stop_recording(raises)
    /\ lastOp' = IF recording THEN "stop" ELSE "stop_noop"
    /\ UNCHANGED <<pc, screen, controls, timerInterval, last_frame_time, preview,
                   handles, sessHist>>

CallTick ==
    /\ UNCHANGED probe
    /\ pc = "loop"
    /\ ticks < MaxTicks
    /\ \E size \in FrameSizes, isOpened \in BOOLEAN, fatal \in BOOLEAN :
          /\ (fatal => ~isOpened)
          /\ on_tick(size, isOpened, fatal)

NextCalls ==
    \/ Next
    \/ CallStart
    \/ CallStop
    \/ CallTick

SpecCalls == Init /\ [][NextCalls]_vars

\* ================================================================ claims
Idle == ~recording
Recording == recording

\* C1 - Geometry invariant: every frame handed to write() in a session has
\* the session's target geometry, which is the converted size of the first
\* frame written in the session and stays that until stop, however the
\* captured size and the scale selection change between ticks.
C1_GeometryInvariant ==
    /\ \A i \in 1..Len(enc.frames) : ShapeWH(enc.frames[i]) = firstConv
    /\ writer # NoWriter =>
          /\ target_size = firstConv
          /\ enc.size = target_size
          /\ firstConv # NoSize

\* A session in which a frame of another converted size than the first was
\* written (after being resized).
C1_Witness ==
    /\ recording
    /\ writes >= 2
    /\ resized
    /\ target_size = firstConv

\* C2 - Stop-on-close: once closeEvent has run its stop (before and after
\* the event is passed on) the state is Idle, the tick is disarmed and no
\* encoder handle is held; an encoder opened before has been released.
C2_StopOnClose ==
    pc \in {"closing", "closed"} =>
        /\ Idle
        /\ ~timerActive
        /\ writer = NoWriter
        /\ (enc.id # NoWriter => enc.releases = 1)

\* The window was closed while recording with an encoder open.
C2_Witness ==
    /\ pc = "closed"
    /\ lastOp = "close_stop"
    /\ writes >= 1
    /\ enc.releases = 1

\* C3 - Start-transition guard: when the save dialog is cancelled (or gives
\* an empty path) the start leaves the session as it was: Idle, tick not
\* armed, no output path, no encoder handle, no geometry.
C3_StartGuard ==
    [][(pc = "dialog" /\ target_path' = NoPath) =>
          /\ UNCHANGED <<switches, session, timerInterval, last_frame_time, enc>>
          /\ ~recording'
          /\ ~timerActive'
          /\ writer' = NoWriter
          /\ target_size' = NoSize]_vars

\* A start was cancelled in the dialog.
C3_Witness ==
    /\ lastOp = "start_cancel"
    /\ pc = "loop"
    /\ Idle
    /\ target_path = NoPath

\* C4 - Stop postcondition: after stop from any Recording state the state is
\* Idle, the tick is disarmed, the handle is cleared, an encoder opened in
\* the session has been released once, and path and geometry are cleared.
C4_StopPostcondition ==
    lastOp \in {"stop", "close_stop"} =>
        /\ Idle
        /\ ~timerActive
        /\ writer = NoWriter
        /\ target_path = NoPath
        /\ target_size = NoSize
        /\ (opens >= 1 => (enc.id = handles /\ enc.releases = 1))

\* Stop was pressed in a session that had its encoder open.
C4_Witness ==
    /\ lastOp = "stop"
    /\ opens = 1
    /\ writes >= 1
    /\ enc.releases = 1

\* Stop in a session that never opened an encoder, and in one whose last
\* open attempt failed.
C4_ReachNeverOpened == lastOp = "stop" /\ opens = 0 /\ ticks = 0
C4_ReachOpenFailed == lastOp = "stop" /\ opens = 0 /\ openFailed

\* C5 - After a tick on which the encoder could not be opened the state is
\* Idle and the tick is disarmed.
C5_AbortOnOpenFailure ==
    lastOp = "tick_openfail" => (Idle /\ ~timerActive)

\* C6 - A failed open is raised out of the tick: the session never holds a
\* handle to an encoder that did not open, no frame is written to one, and
\* the failing tick writes nothing and leaves handle and geometry unset.
C6_OpenFailureSurfaced ==
    /\ [](writer # NoWriter => (enc.id = writer /\ enc.isOpened))
    /\ [](Len(enc.frames) > 0 => enc.isOpened)
    /\ [][(lastOp' = "tick_openfail" /\ ticks' = ticks + 1) =>
             /\ UNCHANGED <<session, enc, writes>>
             /\ writer' = NoWriter
             /\ target_size' = NoSize]_vars

\* A tick on which the open failed.
C6_Witness ==
    /\ lastOp = "tick_openfail"
    /\ openFailed
    /\ writer = NoWriter
    /\ target_size = NoSize
    /\ writes = 0

\* C7 - Frame accounting: in a session whose open succeeded (and none
\* failed), after N >= 1 ticks exactly N frames were handed to write() and
\* are in the encoder, which was opened once, with the converted size of the
\* first frame and the frame rate selected at that tick.
C7_FrameAccounting ==
    (opens >= 1 /\ ~openFailed) =>
          /\ ticks >= 1
          /\ writes = ticks
          /\ Len(enc.frames) = ticks
          /\ opens = 1
          /\ enc.id = handles
          /\ enc.size = firstConv
          /\ enc.fps = firstFps
          /\ \A i \in 1..Len(enc.frames) : ShapeWH(enc.frames[i]) = enc.size

\* Two ticks of a session at scale 1/2 and 20 fps on a 1920x1080 screen.
C7_Witness ==
    /\ recording
    /\ ~openFailed
    /\ ticks = 2
    /\ writes = 2
    /\ opens = 1
    /\ enc.size = <<960, 540>>
    /\ enc.fps = 20
    /\ Len(enc.frames) = 2

\* changed: what a step changes of the three session fields.
PathChanged == target_path' # target_path
HandleOrGeometryChanged == <<writer, target_size>>' # <<writer, target_size>>
StartOrStop == lastOp' \in {"start", "start_cancel", "stop", "close_stop"}

\* C8 (as claimed) - output path, encoder handle and target geometry are
\* changed by the start and stop transitions only.
C8_OnlyStartStopWrite ==
    [][(PathChanged \/ HandleOrGeometryChanged) => StartOrStop]_vars

\* C8 (amended) - the output path is changed by start and stop only; handle
\* and geometry are set together by the tick that opens the encoder, when
\* both are unset, and are changed otherwise by stop only, which clears
\* them; a tick that finds the handle set changes none of the three.
C8_SessionFieldWriters ==
    [][/\ PathChanged => lastOp' \in {"start", "stop", "close_stop"}
       /\ HandleOrGeometryChanged =>
             \/ /\ lastOp' = "tick_open"
                /\ writer = NoWriter /\ target_size = NoSize
                /\ writer' # NoWriter /\ target_size' # NoSize
             \/ /\ lastOp' \in {"stop", "close_stop"}
                /\ writer' = NoWriter /\ target_size' = NoSize
       /\ (ticks' # ticks /\ writer # NoWriter) => UNCHANGED session]_vars

\* A tick after the one that opened the encoder, with another converted size.
C8_Witness ==
    /\ lastOp = "tick_write"
    /\ writer # NoWriter
    /\ resized
    /\ target_size = firstConv

\* C9 - Close idempotence: releasing with no handle changes nothing and
\* cannot raise; releasing twice gives what releasing once gives; release()
\* is called at most once on an encoder.
C9_CloseIdempotent ==
    /\ \A r1, r2 \in BOOLEAN :
          LET once == release_writer(writer, enc, r1)
              twice == release_writer(once.writer, once.enc, r2)
          IN  /\ twice = once
              /\ ~once.error
              /\ once.writer = NoWriter
              /\ (writer = NoWriter =>
                    once = [writer |-> NoWriter, enc |-> enc, error |-> FALSE])
    /\ enc.releases <= 1

\* Stop released a handle that was absent (no encoder opened in the session),
\* after an earlier session whose encoder was released.
C9_Witness ==
    /\ lastOp = "stop"
    /\ opens = 0
    /\ sessions = 2
    /\ writer = NoWriter
    /\ enc.releases = 0

\* C10 - Cleanup failure is suppressed: when release() raised during stop or
\* close, it was called once, the handle is cleared all the same and the
\* stop ran to its end: Idle, tick disarmed, path and geometry cleared.
C10_CleanupFailureSuppressed ==
    enc.raised =>
        /\ enc.releases = 1
        /\ writer = NoWriter
        /\ Idle
        /\ ~timerActive
        /\ target_path = NoPath
        /\ target_size = NoSize
        /\ pc # "aborted"

\* The window was closed while recording and release() raised.
C10_Witness ==
    /\ enc.raised
    /\ lastOp = "close_stop"
    /\ pc = "closed"

\* Stop was pressed and release() raised.
C10_ReachStop == enc.raised /\ lastOp = "stop"

\* C11 - Lazy encoder lifetime: a start opens no encoder; an encoder is
\* opened only by the tick that writes the session's first frame; frames are
\* only written to an encoder that was opened in the session; an encoder
\* that exists while not recording has been released; a session without a
\* tick opens none.
C11_LazyEncoderLifetime ==
    /\ [](lastOp \in {"start_dialog", "start_cancel", "start"} => writer = NoWriter)
    /\ [](lastOp = "start" => (opens = 0 /\ enc = NoEnc))
    /\ [](ticks = 0 => (opens = 0 /\ writes = 0))
    /\ []((screen /\ ~openFailed /\ ticks >= 1) => opens = 1)
    /\ [](writes >= 1 => (opens >= 1 /\ enc.isOpened /\ Len(enc.frames) = writes))
    /\ []((~recording /\ enc.id # NoWriter) => enc.releases = 1)
    /\ []((recording /\ writer # NoWriter) => (enc.id = writer /\ enc.releases = 0))
    /\ [][handles' # handles =>
             /\ lastOp' = "tick_open"
             /\ handles' = handles + 1
             /\ writes = 0
             /\ writes' = 1]_vars

\* A session that was started and stopped with no tick in between.
C11_Witness ==
    /\ lastOp = "stop"
    /\ sessions = 1
    /\ ticks = 0
    /\ handles = 0
    /\ enc = NoEnc

\* A session's encoder, opened by its first tick and released by stop.
C11_ReachReleased ==
    /\ lastOp = "stop"
    /\ ticks = 1
    /\ opens = 1
    /\ enc.releases = 1
    /\ Len(enc.frames) = 1

\* C12 - No overlap: while a start is blocked in its save dialog, or a close
\* is under way, the timer is not armed, so no tick handler can begin there;
\* a tick handler begins and ends in the main event loop.
C12_NoOverlap ==
    /\ [](pc \in {"dialog", "closing", "closed"} => ~timerActive)
    /\ [][ticks' = ticks + 1 => (pc = "loop" /\ pc' \in {"loop", "aborted"})]_vars

\* A start blocked in its dialog after a session in which ticks ran.
C12_Witness ==
    /\ pc = "dialog"
    /\ sessions = 1
    /\ ticks = 2
    /\ ~timerActive

\* C13 - A start with a path moves to Recording and arms the tick with
\* interval floor(1000 / fps); for every fps of the spin box's range the
\* interval is an integer of 16..1000.
C13_StartArmsTick ==
    /\ lastOp = "start" =>
          /\ Recording
          /\ timerActive
          /\ target_path # NoPath
    /\ sessions >= 1 =>
          /\ startFps \in FpsMin..FpsMax
          /\ timerInterval * startFps <= 1000
          /\ 1000 < (timerInterval + 1) * startFps
    /\ \A f \in FpsMin..FpsMax :
          /\ interval_ms(f) \in 16..1000
          /\ interval_ms(f) * f <= 1000
          /\ 1000 < (interval_ms(f) + 1) * f

\* A session started at 60 frames per second: 16 ms.
C13_Witness ==
    /\ lastOp = "start"
    /\ startFps = 60
    /\ timerInterval = 16
    /\ timerActive

\* The factor an item of the scale box stands for, as 1 / ItemDen.
ItemDen(m) ==
    CASE m = "orig" -> 1 [] m = "1/2" -> 2 [] m = "1/3" -> 3 [] m = "1/4" -> 4

\* k = floor(n / d)
IsFloorOf(k, n, d) == k * d <= n /\ n < (k + 1) * d

\* C14 - For every scale item s and every frame of size (W, H) the converted
\* buffer has the size (floor(W * s), floor(H * s)), the unchanged size for
\* s = 1, and three channels.
C14_ConvertedSize ==
    (probe.kind = "convert" /\ probe.done) =>
        LET W == probe.arg[1]
            H == probe.arg[2]
            d == ItemDen(probe.arg[3])
        IN  /\ IsFloorOf(probe.out.w, W, d)
            /\ IsFloorOf(probe.out.h, H, d)
            /\ probe.out.ch = 3
            /\ (d = 1 => (probe.out.w = W /\ probe.out.h = H))

\* 641 x 643 at 1/3: 213 x 214 (rounding would give 214 x 214).
C14_Witness ==
    /\ probe.kind = "convert"
    /\ probe.done
    /\ probe.arg = <<641, 643, "1/3">>
    /\ probe.out.w = 213
    /\ probe.out.h = 214

\* The file names whose extension is .mp4 in some spelling.
Mp4Names ==
    {<<"a", ".", "m", "p", "4">>, <<"a", ".", "M", "P", "4">>,
     <<"a", ".", "M", "p", "4">>, <<"a", ".", "a", "v", "i", ".", "m", "p", "4">>}

\* C15 - Codec by extension: .mp4 in any spelling of case gives mp4v, .avi
\* gives XVID, another codec, and every other extension or none gives XVID.
C15_CodecByExtension ==
    (probe.kind = "codec" /\ probe.done) =>
        /\ probe.out = IF probe.arg \in Mp4Names THEN "mp4v" ELSE "XVID"
        /\ fourcc(PathMp4) # fourcc(PathAvi)

\* a.MP4 gives mp4v.
C15_Witness ==
    /\ probe.kind = "codec"
    /\ probe.done
    /\ probe.arg = <<"a", ".", "M", "P", "4">>
    /\ probe.out = "mp4v"

\* C16 - The frame rate the encoder is opened with equals the frame rate the
\* tick interval was computed from at start, in every session.
C16_EncoderFpsIsStartFps ==
    (recording /\ writer # NoWriter) =>
        /\ enc.fps = startFps
        /\ timerInterval = interval_ms(enc.fps)

\* C17 - The tick is armed exactly while Recording; no tick, and so no preview
\* update, runs in Idle, before the first start or after a stop.
C17_ArmedIffRecording ==
    /\ timerActive <=> recording
    /\ Idle => ~timerActive
    /\ lastOp \in {"tick_noscreen", "tick_idle", "tick_openfail", "tick_open",
                    "tick_write"} => recording
    /\ sessions = 0 => (~preview /\ ticks = 0)
    /\ pc = "dialog" => ~timerActive

\* Idle again after a session in which ticks ran.
C17_Witness ==
    /\ lastOp = "stop"
    /\ Idle
    /\ ~timerActive
    /\ preview
    /\ ticks = 2
    /\ sessions = 1

\* C18 - Session field consistency: the output path is set exactly while
\* Recording, the encoder handle is present exactly when the target geometry
\* is set, and a handle is present only while Recording.
C18_SessionFieldConsistency ==
    /\ target_path # NoPath <=> recording
    /\ writer # NoWriter <=> target_size # NoSize
    /\ writer # NoWriter => recording
    /\ Idle => session = <<NoWriter, NoPath, NoSize>>

\* A second session after a first one that opened its encoder: Recording,
\* the open failed, path set, no handle, no geometry.
C18_Witness ==
    /\ sessions = 2
    /\ handles = 1
    /\ lastOp = "tick_openfail"
    /\ recording
    /\ target_path # NoPath
    /\ writer = NoWriter
    /\ target_size = NoSize

\* Idle after a cancelled second start, the first session released.
C18_ReachCancelled ==
    /\ lastOp = "start_cancel"
    /\ sessions = 1
    /\ handles = 1
    /\ enc.releases = 1
    /\ session = <<NoWriter, NoPath, NoSize>>

\* C19 - Session isolation: a start leaves handle and geometry unset; the
\* encoder a session writes to is a new one, opened by that session's tick on
\* that session's path with the geometry of that session's first frame; a
\* frame is written only to an encoder not released.
C19_SessionIsolation ==
    /\ [](lastOp = "start" => (writer = NoWriter /\ target_size = NoSize /\ enc = NoEnc))
    /\ []((recording /\ writer # NoWriter) =>
             /\ writer = handles
             /\ enc.id = writer
             /\ enc.releases = 0
             /\ enc.path = target_path
             /\ enc.size = firstConv
             /\ target_size = firstConv
             /\ Len(enc.frames) = writes)
    /\ [][handles' # handles =>
             /\ writer = NoWriter
             /\ writer' = handles'
             /\ handles' > handles
             /\ enc'.path = target_path
             /\ enc'.frames = <<[w |-> enc'.size[1], h |-> enc'.size[2],
                                 ch |-> BgrChannels]>>]_vars
    /\ [][enc'.frames # enc.frames =>
             (enc'.releases = 0 /\ enc'.id = writer' /\ recording')]_vars

\* The second session's encoder: handle 2, its own path and geometry.
C19_Witness ==
    /\ sessions = 2
    /\ lastOp = "tick_open"
    /\ handles = 2
    /\ writer = 2
    /\ enc.id = 2
    /\ enc.path = PathAvi
    /\ enc.size = <<683, 384>>
    /\ writes = 1

\* C20 - Redundant requests are no-ops: a start while Recording, a stop while
\* Idle and a tick while not recording change no session field, no switch,
\* no encoder; start and stop change nothing at all (the tick still updates
\* the preview).
C20_RedundantNoOps ==
    [][/\ (recording /\ pc = "loop" /\ lastOp' # lastOp
            /\ lastOp' \in {"start_noop", "start_dialog", "start_cancel", "start"}) =>
              (lastOp' = "start_noop" /\ UNCHANGED <<prog, handles, sessHist>>)
       /\ (~recording /\ pc = "loop" /\ lastOp' # lastOp
            /\ lastOp' \in {"stop", "stop_noop"}) =>
              (lastOp' = "stop_noop" /\ UNCHANGED <<prog, handles, sessHist>>)
       /\ (~recording /\ lastOp' # lastOp
            /\ lastOp' \in {"tick_noscreen", "tick_idle", "tick_openfail",
                             "tick_open", "tick_write"}) =>
              /\ lastOp' \in {"tick_noscreen", "tick_idle"}
              /\ UNCHANGED <<pc, screen, controls, switches, timerInterval, session,
                             last_frame_time, enc, handles, sessHist>>]_vars

\* A start refused while Recording with the encoder open.
C20_Witness ==
    /\ lastOp = "start_noop"
    /\ recording
    /\ timerActive
    /\ writer # NoWriter
    /\ writes = 1

\* A stop while Idle, after a session.
C20_ReachStopNoop == lastOp = "stop_noop" /\ Idle /\ sessions = 1 /\ enc.releases = 1

\* A tick while Idle, after a session.
C20_ReachTickIdle == lastOp = "tick_idle" /\ Idle /\ sessions = 1 /\ preview

====
